---- MODULE Spec2Model ----
(***************************************************************************)
(* A model of DiscordenoShard (packages/gateway, src/unnamed/part_002): one *)
(* gateway shard, the sockets it has opened, the server at the other end of *)
(* each socket and the user of the shard.                                   *)
(*                                                                          *)
(* JavaScript runs one macrotask (a socket event, a timer, a user call) to  *)
(* completion, microtasks included, before the next one starts.  Every      *)
(* action below is one macrotask: the handler and every continuation that   *)
(* becomes runnable without waiting for another event.  A call suspends     *)
(* across macrotasks only at: connect() (socket open), identify()/resume()  *)
(* (a resolver), checkOffline() (a drain), bucket.acquire() (a refill) and  *)
(* the delay of the InvalidSession handler.                                 *)
(***************************************************************************)
EXTENDS Integers, Sequences, FiniteSets, TLC

\* ------------------------------------------------------------------ bounds
\* sockets the shard may open in one behaviour (each connect() opens one)
MaxSockets == 2
\* user commands passed to send() in one behaviour
MaxSends == 2
\* sequence numbers of Dispatch packets are drawn from 0..MaxSeq
MaxSeq == 1
\* Math.random() returns one of 0, 1 / SampleSteps, ..., 1 - 1 / SampleSteps
SampleSteps == 8

\* ------------------------------------------------------- program constants
maxRequestsPerRateLimitTick == 120
rateLimitResetInterval == 60000
\* previousSequenceNumber: number | null = null
Null == -1

\* ShardState (types.ts)
ShardStates ==
    {"Offline", "Connecting", "Unidentified", "Identifying", "Connected",
     "Resuming", "Disconnected"}

\* ShardSocketCloseCodes: the codes the shard itself closes a socket with
ShardCodes ==
    {"Shutdown", "ReIdentifying", "Resharded", "ResumeClosingOldConnection",
     "ZombiedConnection", "TestingFinished"}

\* GatewayCloseEventCodes, and 1006 for a code no case of handleClose lists
GatewayCodes ==
    {"UnknownError", "UnknownOpcode", "DecodeError", "NotAuthenticated",
     "AuthenticationFailed", "AlreadyAuthenticated", "InvalidSeq",
     "RateLimited", "SessionTimedOut", "InvalidShard", "ShardingRequired",
     "InvalidApiVersion", "InvalidIntents", "DisallowedIntents", "1006"}

\* the switch of handleClose, as the class of each code
GracefulCodes ==
    {"Shutdown", "ReIdentifying", "Resharded", "ResumeClosingOldConnection",
     "ZombiedConnection"}
ReIdentifyCodes ==
    {"UnknownOpcode", "NotAuthenticated", "InvalidSeq", "RateLimited",
     "SessionTimedOut"}
FatalCodes ==
    {"AuthenticationFailed", "InvalidShard", "ShardingRequired",
     "InvalidApiVersion", "InvalidIntents", "DisallowedIntents"}

\* heartbeat_interval of a Hello: the usual 41250 ms, and a short one that
\* leaves calculateSafeRequests() at 2
Intervals == {41250, 1017}

VARIABLES
    state,                   \* this.state
    socks,                   \* every WebSocket connect() has created
    socket,                  \* this.socket: an index of socks, 0 = undefined
    sessionId,               \* this.sessionId, 0 = undefined
    resumeGatewayUrl,        \* this.resumeGatewayUrl, 0 = ''
    previousSequenceNumber,  \* this.previousSequenceNumber
    heart,                   \* this.heart
    bucket,                  \* this.bucket
    offlineSendQueue,        \* this.offlineSendQueue
    resolves,                \* this.resolves
    intents,                 \* this.connection.intents
    cache,                   \* this.cache.requestMembers: enabled, and
                             \* pending as a set of records, one a nonce
    now,                     \* the reading of Date.now()
    asks,                    \* history: the requestMembers calls that were
                             \* given a pending record, see requestMembers
    random,                  \* what Math.random() returns next, in
                             \* steps of 1 / SampleSteps
    jitter,                  \* const jitter of the last startHeartbeating(),
                             \* 0 before the first
    primary,                 \* gatewayConfig.url is wss://gateway.discord.gg
    nSends,                  \* user commands passed to send() so far
    halted,                  \* history: what stopped the shard, see Cur
    zombied,                 \* history: a connection was closed as zombied
                             \* and no heartbeat has been written since
    lastS                    \* history: the s of the last packet received
                             \* whose s is not null, Null before the first

vars ==
    <<state, socks, socket, sessionId, resumeGatewayUrl,
      previousSequenceNumber, heart, bucket, offlineSendQueue, resolves,
      intents, cache, now, asks, random, jitter, primary, nSends, halted,
      zombied, lastS>>

\* ------------------------------------------------------------ the shard
\* The fields of the shard as one record, so that a handler is the
\* composition of the calls it makes.  calls, cbs, tx, rel and err are the
\* history of the running macrotask: the methods called (each with
\* this.state at the call), the event callbacks invoked, the payloads
\* handed to send(), the payloads written to a socket, the offline-queue
\* senders released, the tokens taken from the bucket, the packets of
\* earlier macrotasks whose handling was completed, and whether an Error was
\* thrown.  They start empty with every macrotask.  halted and zombied
\* are history across macrotasks: halted is "fatal" since a close with a
\* fatal code, "shutdown" since shutdown(), "no" since the user's last
\* connect(), identify() or resume(); zombied is true since a tick of the
\* interval timer closed a connection as zombied, until the next heartbeat
\* is written
Cur ==
    [state |-> state, socks |-> socks, socket |-> socket,
     sessionId |-> sessionId, resumeGatewayUrl |-> resumeGatewayUrl,
     previousSequenceNumber |-> previousSequenceNumber, heart |-> heart,
     bucket |-> bucket, offlineSendQueue |-> offlineSendQueue,
     resolves |-> resolves, cache |-> cache, asks |-> asks,
     jitter |-> jitter,
     halted |-> halted, zombied |-> zombied,
     calls |-> <<>>, cbs |-> {}, msgs |-> <<>>, tx |-> <<>>, rel |-> <<>>,
     took |-> 0, late |-> {}, err |-> FALSE]

Emit(S, cb) == [S EXCEPT !.cbs = @ \cup {cb}]
Called(S, op) == [S EXCEPT !.calls = Append(@, [op |-> op, st |-> S.state])]

\* isOpen(): this.socket?.readyState === WebSocket.OPEN
isOpen(S) == S.socket # 0 /\ S.socks[S.socket].rs = "OPEN"

\* calculateSafeRequests(); Math.ceil(a / b) of positive integers
CeilDiv(a, b) == (a + b - 1) \div b
calculateSafeRequests(S) ==
    LET safeRequests ==
            maxRequestsPerRateLimitTick
                - CeilDiv(rateLimitResetInterval, S.heart.interval) * 2
    IN  IF safeRequests < 0 THEN 0 ELSE safeRequests

\* close(code, reason): a no-op unless the socket is open; ws moves the
\* socket to CLOSING and delivers the close event, with this code, later
close(S, code) ==
    IF ~isOpen(S) THEN S
    ELSE [Called(S, "close") EXCEPT !.socks[S.socket].rs = "CLOSING",
                                    !.socks[S.socket].code = code]

\* new WebSocket(url): the socket connect() creates.  by is the call that
\* awaits connect(), out the state of the promise of that call, srv what
\* the server has sent on the socket, wire the frames it has received,
\* jitter and steady whether the timers started by the Hello of this socket
\* are pending, inv the delay of the InvalidSession received on it, tail the
\* packet whose handler awaits the call that created the socket
NewSocket(by, url) ==
    [rs |-> "CONNECTING", by |-> by, url |-> url,
     code |-> "none", out |-> IF by = "connect" THEN "none" ELSE "pending",
     srv |-> "new", wire |-> <<>>,
     jitter |-> FALSE, steady |-> FALSE, inv |-> "none", tail |-> "none"]

\* a connect() that always opens gatewayConfig.url
connectConfigUrl(S, by) ==
    LET S1 == IF S.state \notin {"Identifying", "Resuming"}
              THEN [S EXCEPT !.state = "Connecting"] ELSE S
        S2 == Emit(Called(S1, "connect"), "connecting")
    IN  [S2 EXCEPT !.socks = Append(@, NewSocket(by, 0)),
                   !.socket = Len(S2.socks) + 1]

\* connect(), up to the await of the socket's open event.  url 0 is
\* gatewayConfig.url (with v and encoding set when it is the primary
\* gateway), another url is this.resumeGatewayUrl
connect(S, by) ==
    LET S1 == IF S.state \notin {"Identifying", "Resuming"}
              THEN [S EXCEPT !.state = "Connecting"] ELSE S
        S2 == Emit(Called(S1, "connect"), "connecting")
        url == IF primary /\ S2.state = "Resuming"
               THEN S2.resumeGatewayUrl ELSE 0
    IN  [S2 EXCEPT !.socks = Append(@, NewSocket(by, url)),
                   !.socket = Len(S2.socks) + 1]

\* identify(), up to the await of connect().  The socket is never open at
\* the second isOpen(): an open one has just been closed
identify(S) ==
    LET S0 == Called(S, "identify")
        S1 == IF isOpen(S0) THEN close(S0, "ReIdentifying") ELSE S0
        S2 == Emit([S1 EXCEPT !.state = "Identifying"], "identifying")
    IN  IF ~isOpen(S2) THEN connect(S2, "identify") ELSE S2

\* a resume() that connects whether or not there is a session
resumeNoFallback(S) ==
    LET S0 == Called(S, "resume")
        S1 == IF isOpen(S0)
              THEN close(S0, "ResumeClosingOldConnection") ELSE S0
    IN  connect([S1 EXCEPT !.state = "Resuming"], "resume")

\* resume(), up to the await of connect()
resume(S) ==
    LET S0 == Called(S, "resume")
        S1 == IF isOpen(S0)
              THEN close(S0, "ResumeClosingOldConnection") ELSE S0
    IN  IF S1.sessionId = 0 THEN identify(S1)
        ELSE connect([S1 EXCEPT !.state = "Resuming"], "resume")

\* ------------------------------------------------------------- send path
Identify == [op |-> "Identify", sid |-> 0, seq |-> Null]
Resume(sid, seq) == [op |-> "Resume", sid |-> sid, seq |-> seq]
HeartbeatMsg(seq) == [op |-> "Heartbeat", sid |-> 0, seq |-> seq]
\* the commands of the facade: editShardStatus, joinVoiceChannel and
\* leaveVoiceChannel, requestMembers.  The user's commands are told apart
\* by their number: the first is a PresenceUpdate, the second a
\* VoiceStateUpdate, the third a RequestGuildMembers, and so on
UserOps == <<"PresenceUpdate", "VoiceStateUpdate", "RequestGuildMembers">>
UserMsg(j) == [op |-> UserOps[((j - 1) % 3) + 1], sid |-> 0, seq |-> Null]

\* this.socket?.send(JSON.stringify(message)): nothing without a socket; ws
\* throws on a CONNECTING socket and drops the frame on a CLOSING or CLOSED
\* one.  tx keeps every write, wire the frames that reached the server
socketSend(S, msg) ==
    IF S.socket = 0 THEN S
    ELSE LET rs == S.socks[S.socket].rs
             S0 == [S EXCEPT !.tx = Append(@, [msg |-> msg, sock |-> S.socket,
                                               rs |-> rs])]
             S1 == IF msg.op = "Heartbeat"
                   THEN [S0 EXCEPT !.zombied = FALSE] ELSE S0
         IN  CASE rs = "OPEN" ->
                    IF msg.op = "Heartbeat" THEN S1
                    ELSE [S1 EXCEPT !.socks[S.socket].wire = Append(@, msg)]
               [] rs = "CONNECTING" -> [S1 EXCEPT !.err = TRUE]
               [] OTHER -> S1

\* a checkOffline() that pushes every resolve function, whatever its priority
parkAppend(S, msg, hp, stage) ==
    [S EXCEPT !.offlineSendQueue =
        Append(@, [msg |-> msg, hp |-> hp, stage |-> stage,
                   n |-> Len(S.offlineSendQueue), released |-> FALSE])]

\* the Promise of checkOffline(): its resolve function is put in
\* offlineSendQueue, at the front for a high-priority caller.  stage is the
\* checkOffline of send() that parked (1: before the bucket, 2: after), n
\* the number of senders parked before this one, released whether resolve
\* has been called
park(S, msg, hp, stage) ==
    LET e == [msg |-> msg, hp |-> hp, stage |-> stage,
              n |-> Len(S.offlineSendQueue), released |-> FALSE]
    IN  [S EXCEPT !.offlineSendQueue =
                      IF hp THEN <<e>> \o @ ELSE Append(@, e)]

\* send() from its second checkOffline on
afterAcquire(S, msg, hp) ==
    IF ~isOpen(S) THEN park(S, msg, hp, 2) ELSE socketSend(S, msg)

\* bucket.acquire(1, highPriority) and the rest of send(): a token is taken
\* when one is there and nobody waits, else the caller waits in
\* bucket.waiting, at the head when high priority
acquire(S, msg, hp) ==
    IF S.bucket.tokens >= 1 /\ S.bucket.waiting = <<>>
    THEN afterAcquire([S EXCEPT !.bucket.tokens = @ - 1, !.took = @ + 1],
                      msg, hp)
    ELSE LET w == [msg |-> msg, hp |-> hp]
         IN  [S EXCEPT !.bucket.waiting =
                           IF hp THEN <<w>> \o @ ELSE Append(@, w)]

\* a checkOffline() that parks the caller unless the shard is Connected
checkOfflineConnected(S, msg, hp) ==
    IF ~isOpen(S) \/ S.state # "Connected" THEN park(S, msg, hp, 1)
    ELSE acquire(S, msg, hp)

\* checkOffline(highPriority) as the first step of send()
checkOffline(S, msg, hp) ==
    IF ~isOpen(S) THEN park(S, msg, hp, 1) ELSE acquire(S, msg, hp)

\* a send() that does not go through the bucket
sendNoToken(S, msg, hp) ==
    LET S1 == [Called(S, "send") EXCEPT !.msgs = Append(@, msg)]
    IN  IF ~isOpen(S1) THEN park(S1, msg, hp, 1)
        ELSE afterAcquire(S1, msg, hp)

\* send(message, highPriority)
send(S, msg, hp) ==
    checkOffline([Called(S, "send") EXCEPT !.msgs = Append(@, msg)], msg, hp)

\* a parked sender goes on after its resolve was called
RECURSIVE Continue(_, _)
Continue(S, es) ==
    IF es = <<>> THEN S
    ELSE LET e == Head(es)
             S1 == IF e.stage = 1 THEN acquire(S, e.msg, e.hp)
                   ELSE socketSend(S, e.msg)
         IN  Continue(S1, Tail(es))

Unreleased(q) == SelectSeq(q, LAMBDA e : ~e.released)

\* this.offlineSendQueue.map((resolve) => resolve()): every resolve function
\* is called, in the order of the array, and none is removed from it.
\* Calling an already called one does nothing.  The senders go on in
\* microtasks: one parked at the second checkOffline writes its message two
\* hops later, one parked at the first goes through the bucket first, so the
\* former all write before the latter
drainOfflineQueue(S) ==
    LET todo == Unreleased(S.offlineSendQueue)
        S1 == [S EXCEPT !.offlineSendQueue =
                            [i \in 1..Len(@) |-> [@[i] EXCEPT !.released = TRUE]],
                        !.rel = @ \o todo]
    IN  Continue(S1, SelectSeq(todo, LAMBDA e : e.stage = 2)
                         \o SelectSeq(todo, LAMBDA e : e.stage = 1))

\* ------------------------------------------------------------- resolvers
\* handleDiscordPacket after its await of resume() or identify(): when the
\* promise of the call that created socket k is resolved, the handler of
\* the Reconnect or InvalidSession packet that awaits it goes on to the end
\* of the method.  Such a packet has no sequence number, so what is left
\* is the message callback
packetResumes(S, k) ==
    IF S.socks[k].tail = "none" THEN S
    ELSE [Emit(S, "message") EXCEPT !.late = @ \cup {S.socks[k].tail},
                                    !.socks[k].tail = "none"]

\* op is the packet whose handler awaits the call that took S0 to S1
awaitedBy(S0, S1, op) ==
    IF Len(S1.socks) > Len(S0.socks)
    THEN [S1 EXCEPT !.socks[Len(S1.socks)].tail = op] ELSE S1

\* the promise of the identify()/resume() call that created socket k is
\* resolved; resolving it again does nothing
resolveAttempt(S, k) ==
    IF S.socks[k].out # "pending" THEN S
    ELSE packetResumes([S EXCEPT !.socks[k].out = "resolved"], k)

\* this.resolves.get(key)?.(packet); this.resolves.delete(key).  An entry
\* is the socket of the call that registered it.  The INVALID_SESSION
\* callback of identify() deletes READY, that of resume() deletes RESUMED
callResolver(S, key) ==
    LET k == S.resolves[key]
        S1 == IF k = 0 THEN S
              ELSE CASE key = "READY" ->
                          resolveAttempt(Emit(S, "identified"), k)
                     [] key = "RESUMED" -> resolveAttempt(S, k)
                     [] OTHER ->
                          resolveAttempt(
                              [S EXCEPT !.resolves[
                                  IF S.socks[k].by = "identify"
                                  THEN "READY" ELSE "RESUMED"] = 0], k)
    IN  [S1 EXCEPT !.resolves[key] = 0]

\* ------------------------------------------------------------- heartbeat
\* stopHeartbeating(): clearInterval(intervalId); clearTimeout(timeoutId).
\* A timer is named by the socket whose Hello started it
stopHeartbeating(S) ==
    LET S1 == IF S.heart.intervalId = 0 THEN S
              ELSE [S EXCEPT !.socks[S.heart.intervalId].steady = FALSE]
    IN  IF S1.heart.timeoutId = 0 THEN S1
        ELSE [S1 EXCEPT !.socks[S1.heart.timeoutId].jitter = FALSE]

\* Math.ceil(this.heart.interval * (Math.random() || 0.5)), for the sample
\* r / SampleSteps: only a sample of 0 is replaced by 0.5
Jitter(interval, r) ==
    IF r = 0 THEN CeilDiv(interval, 2) ELSE CeilDiv(interval * r, SampleSteps)

\* startHeartbeating(interval), for the Hello received on socket k: the
\* jitter timer is scheduled, nothing is sent yet
startHeartbeating(S, k, interval) ==
    LET S1 == [S EXCEPT !.heart.interval = interval]
        S2 == IF S1.state \in {"Disconnected", "Offline"}
              THEN [S1 EXCEPT !.state = "Unidentified"] ELSE S1
    IN  [S2 EXCEPT !.jitter = Jitter(interval, random),
                   !.heart.timeoutId = k, !.socks[k].jitter = TRUE]

\* a callback of the jitter timer that leaves heart.acknowledged as it is
jitterCallbackNoFlag(S, k) ==
    IF ~isOpen(S) THEN S
    ELSE LET S1 == socketSend(S, HeartbeatMsg(S.previousSequenceNumber))
         IN  [S1 EXCEPT !.heart.intervalId = k, !.socks[k].steady = TRUE]

\* the callback of the jitter timer
jitterCallback(S, k) ==
    IF ~isOpen(S) THEN S
    ELSE LET S1 == socketSend(S, HeartbeatMsg(S.previousSequenceNumber))
         IN  [S1 EXCEPT !.heart.acknowledged = FALSE,
                        !.heart.intervalId = k,
                        !.socks[k].steady = TRUE]

\* the callback of the interval timer
intervalCallback(S) ==
    IF ~isOpen(S) THEN S
    ELSE IF ~S.heart.acknowledged
         THEN identify(close([S EXCEPT !.zombied = TRUE],
                             "ZombiedConnection"))
         ELSE Emit(socketSend([S EXCEPT !.heart.acknowledged = FALSE],
                              HeartbeatMsg(S.previousSequenceNumber)),
                   "heartbeat")

\* ----------------------------------------------------------- handleClose
\* the cases of the switch of handleClose(close), each up to the await of
\* identify() or resume(); nothing follows that await
closeTestingFinished(S) ==
    Emit([S EXCEPT !.state = "Offline"], "disconnected")

\* a graceful case that restarts the shard itself
closeGracefulRestarts(S) ==
    identify(Emit([S EXCEPT !.state = "Disconnected"], "disconnected"))

closeGraceful(S) ==
    Emit([S EXCEPT !.state = "Disconnected"], "disconnected")

\* a must-re-identify case that resumes
closeReIdentifyByResume(S) ==
    resume(Emit([S EXCEPT !.state = "Identifying"], "disconnected"))

closeReIdentify(S) ==
    identify(Emit([S EXCEPT !.state = "Identifying"], "disconnected"))

\* throw new Error(...): the promise of handleClose is rejected, and nobody
\* awaits it
closeFatal(S) ==
    [Emit([S EXCEPT !.state = "Offline"], "disconnected")
        EXCEPT !.err = TRUE, !.halted = "fatal"]

\* a default case that leaves the restart to the user
closeResumableIdle(S) ==
    Emit([S EXCEPT !.state = "Resuming"], "disconnected")

closeResumable(S) ==
    resume(Emit([S EXCEPT !.state = "Resuming"], "disconnected"))

handleClose(S, code) ==
    LET S0 == stopHeartbeating(Called(S, "handleClose"))
    IN  CASE code = "TestingFinished" -> closeTestingFinished(S0)
          [] code \in GracefulCodes -> closeGraceful(S0)
          [] code \in ReIdentifyCodes -> closeReIdentify(S0)
          [] code \in FatalCodes -> closeFatal(S0)
          [] OTHER -> closeResumable(S0)

\* --------------------------------------------------- handleDiscordPacket
\* an update that tests packet.s for truth, and so misses s = 0
updateSequenceTruthy(S, packet) ==
    IF packet.s # Null /\ packet.s # 0
    THEN [S EXCEPT !.previousSequenceNumber = packet.s] ELSE S

\* if (packet.s !== null) this.previousSequenceNumber = packet.s
updateSequence(S, packet) ==
    IF packet.s # Null
    THEN [S EXCEPT !.previousSequenceNumber = packet.s] ELSE S

\* a tail whose READY case keeps the session the shard had
packetTailKeepsSession(S, packet) ==
    LET S1 == CASE packet.t = "RESUMED" ->
                     callResolver(
                         drainOfflineQueue(
                             Emit([S EXCEPT !.state = "Connected"], "resumed")),
                         "RESUMED")
                [] packet.t = "READY" ->
                     callResolver(
                         drainOfflineQueue(
                             [S EXCEPT !.resumeGatewayUrl = packet.url,
                                       !.state = "Connected"]),
                         "READY")
                [] OTHER -> S
    IN  Emit(updateSequence(S1, packet), "message")

\* the part of handleDiscordPacket after the switch on packet.op
packetTail(S, packet) ==
    LET S1 == CASE packet.t = "RESUMED" ->
                     callResolver(
                         drainOfflineQueue(
                             Emit([S EXCEPT !.state = "Connected"], "resumed")),
                         "RESUMED")
                [] packet.t = "READY" ->
                     callResolver(
                         drainOfflineQueue(
                             [S EXCEPT !.resumeGatewayUrl = packet.url,
                                       !.sessionId = packet.sid,
                                       !.state = "Connected"]),
                         "READY")
                [] OTHER -> S
    IN  Emit(updateSequence(S1, packet), "message")

\* a rebuild that starts the new bucket without waiters
rebuildBucketEmpty(S) ==
    [S EXCEPT !.bucket =
        [max |-> calculateSafeRequests(S),
         refillAmount |-> calculateSafeRequests(S),
         tokens |-> calculateSafeRequests(S),
         waiting |-> <<>>]]

\* this.bucket = createLeakyBucket({max, refillInterval, refillAmount,
\* waiting: this.bucket.waiting}): a full bucket that takes over the waiters
rebuildBucket(S) ==
    [S EXCEPT !.bucket =
        [max |-> calculateSafeRequests(S),
         refillAmount |-> calculateSafeRequests(S),
         tokens |-> calculateSafeRequests(S),
         waiting |-> S.bucket.waiting]]

\* handleDiscordPacket(packet) for a packet received on socket k, up to its
\* first wait for another macrotask.  Reconnect awaits resume() and
\* InvalidSession a delay: the rest of those runs later
handleDiscordPacket(S, k, packet) ==
    LET S0 == [Called(S, "handleDiscordPacket")
                   EXCEPT !.heart.acknowledged = TRUE]
    IN  CASE packet.op = "Heartbeat" ->
               IF ~isOpen(S0) THEN S0
               ELSE packetTail(
                        Emit(socketSend(S0, HeartbeatMsg(
                                 S0.previousSequenceNumber)), "heartbeat"),
                        packet)
          [] packet.op = "Hello" ->
               LET S1 == startHeartbeating(S0, k, packet.d)
                   S2 == IF S1.state # "Resuming" THEN rebuildBucket(S1)
                         ELSE S1
               IN  packetTail(Emit(S2, "hello"), packet)
          [] packet.op = "HeartbeatACK" ->
               packetTail(Emit(S0, "heartbeatAck"), packet)
          [] packet.op = "Reconnect" ->
               awaitedBy(S0, resume(Emit(S0, "requestedReconnect")),
                         "Reconnect")
          [] packet.op = "InvalidSession" ->
               [Emit(S0, "invalidSession")
                   EXCEPT !.socks[k].inv = IF packet.d = 1 THEN "resumable"
                                           ELSE "fresh"]
          [] OTHER -> packetTail(S0, packet)

\* an end of the delay that re-identifies whatever d was
afterDelayIdentifies(S, k) ==
    LET S1 == callResolver(S, "INVALID_SESSION")
        S2 == [S1 EXCEPT !.socks[k].inv = "done"]
    IN  identify(S2)

\* handleDiscordPacket for InvalidSession, after its delay
afterDelay(S, k) ==
    LET S1 == callResolver(S, "INVALID_SESSION")
        S2 == [S1 EXCEPT !.socks[k].inv = "done"]
    IN  awaitedBy(S2, IF S.socks[k].inv = "fresh" THEN identify(S2)
                      ELSE resume(S2), "InvalidSession")

\* ----------------------------------------------------------- socket open
\* a Resume payload that always asks for a replay from 0
resumePayloadNoSeq(S) == Resume(S.sessionId, 0)

\* the payload resume() builds: session_id: this.sessionId,
\* seq: this.previousSequenceNumber ?? 0
resumePayload(S) ==
    Resume(S.sessionId,
           IF S.previousSequenceNumber = Null THEN 0
           ELSE S.previousSequenceNumber)

\* socket.onopen of socket k, and what the call awaiting connect() does
\* next: identify() asks for its permit (requestIdentify and makePresence
\* resolve at once), sends Identify and registers its resolvers; resume()
\* sends Resume and registers its resolvers
onopen(S, k) ==
    LET S0 == [S EXCEPT !.socks[k].rs = "OPEN"]
        S1 == IF S0.state \notin {"Identifying", "Resuming"}
              THEN [S0 EXCEPT !.state = "Unidentified"] ELSE S0
        S2 == Emit(S1, "connected")
    IN  CASE S.socks[k].by = "identify" ->
               [send(S2, Identify, TRUE)
                   EXCEPT !.resolves["READY"] = k,
                          !.resolves["INVALID_SESSION"] = k]
          [] S.socks[k].by = "resume" ->
               [send(S2, resumePayload(S2), TRUE)
                   EXCEPT !.resolves["RESUMED"] = k,
                          !.resolves["INVALID_SESSION"] = k]
          [] OTHER -> S2

\* shutdown()
shutdown(S) ==
    [close(Called(S, "shutdown"), "Shutdown")
        EXCEPT !.state = "Offline", !.halted = "shutdown"]

\* the bucket's refill: refillAmount tokens are added up to max, and the
\* waiters are served from the head while a token is left
RECURSIVE serveWaiters(_)
serveWaiters(S) ==
    IF S.bucket.waiting = <<>> \/ S.bucket.tokens < 1 THEN S
    ELSE LET w == Head(S.bucket.waiting)
         IN  serveWaiters(afterAcquire(
                 [S EXCEPT !.bucket.waiting = Tail(@),
                           !.bucket.tokens = @ - 1, !.took = @ + 1],
                 w.msg, w.hp))

refill(S) ==
    LET b == S.bucket
        n == IF b.tokens + b.refillAmount > b.max THEN b.max
             ELSE b.tokens + b.refillAmount
    IN  serveWaiters([S EXCEPT !.bucket.tokens = n])

\* ---------------------------------------------------------------- actions
\* the macrotask ends and the shard's fields are stored.  A macrotask that
\* would open a socket beyond the n-th is left out
CommitWithin(S, n) ==
    /\ Len(S.socks) <= IF n > Len(socks) THEN n ELSE Len(socks)
    /\ state' = S.state
    /\ socks' = S.socks
    /\ socket' = S.socket
    /\ sessionId' = S.sessionId
    /\ resumeGatewayUrl' = S.resumeGatewayUrl
    /\ previousSequenceNumber' = S.previousSequenceNumber
    /\ heart' = S.heart
    /\ bucket' = S.bucket
    /\ offlineSendQueue' = S.offlineSendQueue
    /\ resolves' = S.resolves
    /\ jitter' = S.jitter
    /\ halted' = S.halted
    /\ zombied' = S.zombied

\* A macrotask that would open a socket beyond MaxSockets is left out
Commit(S) == CommitWithin(S, MaxSockets)

Init ==
    /\ state = "Offline"
    /\ socks = <<>>
    /\ socket = 0
    /\ sessionId = 0
    /\ resumeGatewayUrl = 0
    /\ previousSequenceNumber = Null
    /\ heart = [acknowledged |-> FALSE, interval |-> 45000,
                timeoutId |-> 0, intervalId |-> 0]
    /\ bucket = [max |-> 120, refillAmount |-> 120, tokens |-> 120,
                 waiting |-> <<>>]
    /\ offlineSendQueue = <<>>
    /\ resolves = [READY |-> 0, RESUMED |-> 0, INVALID_SESSION |-> 0]
    /\ intents = 513
    /\ cache = [enabled |-> FALSE, pending |-> {}]
    /\ now = 0
    /\ asks = <<>>
    /\ random = 0
    /\ jitter = 0
    /\ primary = TRUE
    /\ nSends = 0
    /\ halted = "no"
    /\ zombied = FALSE
    /\ lastS = Null

Socks == 1..Len(socks)

\* Cur at a call of the user that starts the shard
Started == [Cur EXCEPT !.halted = "no"]

\* The user starts the shard when it is at rest: state says so and its
\* socket, if it has one, is closed.  identify() is also the user's next
\* call after connect()
AtRest ==
    /\ state \in {"Offline", "Disconnected"}
    /\ socket # 0 => socks[socket].rs = "CLOSED"

UserConnect ==
    /\ AtRest
    /\ Commit(connect(Started, "connect"))
    /\ UNCHANGED <<intents, cache, now, asks, random, primary,
                   nSends, lastS>>

UserIdentify ==
    /\ AtRest \/ (state = "Unidentified" /\ isOpen(Cur))
    /\ Commit(identify(Started))
    /\ UNCHANGED <<intents, cache, now, asks, random, primary,
                   nSends, lastS>>

\* identify() on a shard whose socket is open: "a new identify has been
\* requested even though there is already a connection open"
UserReIdentify ==
    /\ isOpen(Cur)
    /\ Commit(identify(Started))
    /\ UNCHANGED <<intents, cache, now, asks, random, primary,
                   nSends, lastS>>

UserResume ==
    /\ AtRest
    /\ Commit(resume(Started))
    /\ UNCHANGED <<intents, cache, now, asks, random, primary,
                   nSends, lastS>>

UserShutdown ==
    /\ Commit(shutdown(Cur))
    /\ UNCHANGED <<intents, cache, now, asks, random, primary,
                   nSends, lastS>>

\* the shard manager closes the socket of a shard it replaces
ManagerCodes == {"TestingFinished", "Resharded"}
UserClose ==
    \E code \in ManagerCodes :
        /\ isOpen(Cur)
        /\ Commit(close(Cur, code))
        /\ UNCHANGED <<intents, cache, now, asks, random, primary,
                       nSends, lastS>>

UserSend ==
    \E hp \in BOOLEAN :
        /\ nSends < MaxSends
        /\ nSends' = nSends + 1
        /\ Commit(send(Cur, UserMsg(nSends + 1), hp))
        /\ UNCHANGED <<intents, cache, now, asks, random, primary,
                       lastS>>

\* a command of a user who sends none to a shard they have shut down
UserSendLive == halted # "shutdown" /\ UserSend

SocketOpen ==
    \E k \in Socks :
        /\ socks[k].rs = "CONNECTING"
        /\ Commit(onopen(Cur, k))
        /\ UNCHANGED <<intents, cache, now, asks, random, primary,
                       nSends, lastS>>

\* the socket of a close event: closed for good.  What the server sent and
\* received on it is forgotten; the promise and the timers started on it
\* live on
Closed(k) ==
    [Cur EXCEPT !.socks[k] =
        [@ EXCEPT !.rs = "CLOSED", !.code = "none", !.srv = "over",
                  !.wire = <<>>]]

\* the close events that may come next, as <<socket, code>>: that of a
\* socket the shard closed carries the shard's code, and the server may
\* close an open socket with any code of its own
CloseEvents ==
    {<<k, socks[k].code>> : k \in {j \in Socks : socks[j].rs = "CLOSING"}}
        \cup ({k \in Socks : socks[k].rs = "OPEN"} \X GatewayCodes)

onclose(k, code) == handleClose(Closed(k), code)

CloseEvent ==
    \E c \in CloseEvents :
        /\ socks[c[1]].rs = "CLOSING"
        /\ Commit(onclose(c[1], c[2]))
        /\ UNCHANGED <<intents, cache, now, asks, random, primary,
                       nSends, lastS>>

ServerClose ==
    \E c \in CloseEvents :
        /\ socks[c[1]].rs = "OPEN"
        /\ Commit(onclose(c[1], c[2]))
        /\ UNCHANGED <<intents, cache, now, asks, random, primary,
                       nSends, lastS>>

\* A socket delivers what the server sent until its close event.  The
\* server follows the gateway protocol: Hello first, READY only in answer
\* to an Identify and RESUMED to a Resume it received on this socket,
\* events after one of them, nothing but heartbeats after InvalidSession or
\* Reconnect; s is a number on a Dispatch and null on every other op.  Every
\* READY opens a session of its own: the READY on socket k carries
\* session_id k and resume_gateway_url k
Receiving(k) == socks[k].rs \in {"OPEN", "CLOSING"}
Got(k, op) == \E i \in 1..Len(socks[k].wire) : socks[k].wire[i].op = op
Packet(op, t, s, d, sid, url) ==
    [op |-> op, t |-> t, s |-> s, d |-> d, sid |-> sid, url |-> url]

Hellos(k) ==
    IF Receiving(k) /\ socks[k].srv = "new"
    THEN {Packet("Hello", "none", Null, i, 0, 0) : i \in Intervals} ELSE {}
Readys(k) ==
    IF Receiving(k) /\ socks[k].srv = "hello" /\ Got(k, "Identify")
    THEN {Packet("Dispatch", "READY", s, 0, k, k) : s \in 0..MaxSeq} ELSE {}
Resumeds(k) ==
    IF Receiving(k) /\ socks[k].srv = "hello" /\ Got(k, "Resume")
    THEN {Packet("Dispatch", "RESUMED", s, 0, 0, 0) : s \in 0..MaxSeq} ELSE {}
Dispatches(k) ==
    IF Receiving(k) /\ socks[k].srv = "session"
    THEN {Packet("Dispatch", "EVENT", s, 0, 0, 0) : s \in 0..MaxSeq} ELSE {}
InvalidSessions(k) ==
    IF Receiving(k) /\ socks[k].srv = "hello"
           /\ (Got(k, "Identify") \/ Got(k, "Resume"))
    THEN {Packet("InvalidSession", "none", Null, d, 0, 0) : d \in {0, 1}}
    ELSE {}
Reconnects(k) ==
    IF Receiving(k) /\ socks[k].srv \in {"hello", "session"}
    THEN {Packet("Reconnect", "none", Null, 0, 0, 0)} ELSE {}
Heartbeats(k) ==
    IF Receiving(k) /\ socks[k].srv # "new"
    THEN {Packet("Heartbeat", "none", Null, 0, 0, 0)} ELSE {}
HeartbeatACKs(k) ==
    IF Receiving(k) /\ socks[k].srv # "new"
    THEN {Packet("HeartbeatACK", "none", Null, 0, 0, 0)} ELSE {}

\* the server's view of socket k after it has sent packet
SrvAfter(k, packet) ==
    CASE packet.op = "Hello" -> "hello"
      [] packet.op = "Dispatch" -> "session"
      [] packet.op \in {"InvalidSession", "Reconnect"} -> "over"
      [] OTHER -> socks[k].srv

\* socket.onmessage of socket k: handleMessage parses the text frame and
\* hands the packet to handleDiscordPacket
onmessage(k, packet) ==
    handleDiscordPacket([Cur EXCEPT !.socks[k].srv = SrvAfter(k, packet)],
                        k, packet)

Recv(k, packet) ==
    /\ Commit(onmessage(k, packet))
    /\ lastS' = IF packet.s # Null THEN packet.s ELSE lastS
    /\ UNCHANGED <<intents, cache, now, asks, random, primary,
                   nSends>>

RecvHello == \E k \in Socks : \E p \in Hellos(k) : Recv(k, p)
RecvReady == \E k \in Socks : \E p \in Readys(k) : Recv(k, p)
RecvResumed == \E k \in Socks : \E p \in Resumeds(k) : Recv(k, p)
RecvDispatch == \E k \in Socks : \E p \in Dispatches(k) : Recv(k, p)
RecvInvalidSession == \E k \in Socks : \E p \in InvalidSessions(k) : Recv(k, p)
RecvReconnect == \E k \in Socks : \E p \in Reconnects(k) : Recv(k, p)
RecvHeartbeat == \E k \in Socks : \E p \in Heartbeats(k) : Recv(k, p)
RecvHeartbeatACK == \E k \in Socks : \E p \in HeartbeatACKs(k) : Recv(k, p)

\* The commands of the user read no sequence number: the server of SpecSend
\* numbers every Dispatch 0
Numbered0(P) == {p \in P : p.s = 0}
RecvReady0 == \E k \in Socks : \E p \in Numbered0(Readys(k)) : Recv(k, p)
RecvResumed0 ==
    \E k \in Socks : \E p \in Numbered0(Resumeds(k)) : Recv(k, p)

\* every packet the server may send next on socket k
Incoming(k) ==
    Hellos(k) \cup Readys(k) \cup Resumeds(k) \cup Dispatches(k)
        \cup InvalidSessions(k) \cup Reconnects(k) \cup Heartbeats(k)
        \cup HeartbeatACKs(k)

JitterFire ==
    \E k \in Socks :
        /\ socks[k].jitter
        /\ Commit(jitterCallback([Cur EXCEPT !.socks[k].jitter = FALSE], k))
        /\ UNCHANGED <<intents, cache, now, asks, random, primary,
                       nSends, lastS>>

SteadyTick ==
    \E k \in Socks :
        /\ socks[k].steady
        /\ Commit(intervalCallback(Cur))
        /\ UNCHANGED <<intents, cache, now, asks, random, primary,
                       nSends, lastS>>

\* a tick of the interval timer on a connection whose last heartbeat the
\* server answered in time
SteadyTickAcked == heart.acknowledged /\ SteadyTick

\* the server ends a connection for good
ServerCloseFatal ==
    \E c \in CloseEvents :
        /\ socks[c[1]].rs = "OPEN"
        /\ c[2] \in FatalCodes
        /\ Commit(onclose(c[1], c[2]))
        /\ UNCHANGED <<intents, cache, now, asks, random, primary,
                       nSends, lastS>>

DelayFire ==
    \E k \in Socks :
        /\ socks[k].inv \in {"resumable", "fresh"}
        /\ Commit(afterDelay(Cur, k))
        /\ UNCHANGED <<intents, cache, now, asks, random, primary,
                       nSends, lastS>>

BucketRefill ==
    /\ bucket.tokens < bucket.max
    /\ Commit(refill(Cur))
    /\ UNCHANGED <<intents, cache, now, asks, random, primary,
                   nSends, lastS>>

\* Spec: the shard's life, without commands of its user and without
\* heartbeats
Next ==
    \/ UserConnect \/ UserIdentify \/ UserResume \/ UserClose
    \/ SocketOpen \/ CloseEvent \/ ServerClose
    \/ RecvHello \/ RecvReady \/ RecvResumed \/ RecvDispatch
    \/ RecvInvalidSession \/ RecvReconnect
    \/ DelayFire

Spec == Init /\ [][Next]_vars

\* SpecSend: the user's commands, on a shard that identifies, loses its
\* connection and reconnects
NextSend ==
    \/ UserIdentify \/ UserSend
    \/ SocketOpen \/ ServerClose
    \/ RecvHello \/ RecvReady0 \/ RecvResumed0
    \/ BucketRefill

SpecSend == Init /\ [][NextSend]_vars

\* SpecReIdentify: the user's commands, on a shard whose user identifies
\* again while a connection is open
NextReIdentify ==
    \/ UserIdentify \/ UserReIdentify \/ UserSend
    \/ SocketOpen \/ CloseEvent \/ ServerClose
    \/ RecvHello \/ RecvReady0
    \/ BucketRefill

SpecReIdentify == Init /\ [][NextReIdentify]_vars

\* SpecHeart: the heartbeat of a shard that identifies: the jitter and
\* interval timers, the server's Heartbeat requests and its acknowledgements
NextHeart ==
    \/ UserIdentify
    \/ SocketOpen \/ CloseEvent \/ ServerClose
    \/ RecvHello \/ RecvReady0
    \/ RecvHeartbeat \/ RecvHeartbeatACK
    \/ JitterFire \/ SteadyTick

SpecHeart == Init /\ [][NextHeart]_vars

\* SpecTokens: everything that writes to a socket: the handshake, the
\* user's commands and the heartbeats, on connections whose heartbeats the
\* server answers in time and which it ends, if it does, for good
NextTokens ==
    \/ UserIdentify \/ UserSend
    \/ SocketOpen \/ ServerCloseFatal
    \/ RecvHello \/ RecvReady0
    \/ RecvHeartbeat
    \/ JitterFire \/ SteadyTickAcked
    \/ BucketRefill

SpecTokens == Init /\ [][NextTokens]_vars

\* SpecDown: a shard that identifies, is sent commands and is shut down at
\* any moment, and may be started again; the server closes no connection
NextDown ==
    \/ UserIdentify \/ UserSendLive \/ UserShutdown
    \/ SocketOpen \/ CloseEvent
    \/ RecvHello \/ RecvReady0 \/ RecvInvalidSession
    \/ DelayFire
    \/ BucketRefill

SpecDown == Init /\ [][NextDown]_vars

\* SpecDownFair: SpecDown where what the event loop and the server owe
\* comes: a connecting socket opens, a closing one delivers its close
\* event, the server answers with Hello and READY, timers fire
SpecDownFair ==
    /\ SpecDown
    /\ WF_vars(SocketOpen) /\ WF_vars(CloseEvent)
    /\ WF_vars(RecvHello) /\ WF_vars(RecvReady0)
    /\ WF_vars(DelayFire) /\ WF_vars(BucketRefill)

\* ----------------------------------------------------------------- claims
\* What a handler did, read from its result R
CalledOps(R) == {R.calls[i].op : i \in DOMAIN R.calls}
CalledIn(R, op, st) ==
    \E i \in DOMAIN R.calls : R.calls[i] = [op |-> op, st |-> st]
SentOps(R) == {R.msgs[i].op : i \in DOMAIN R.msgs}
\* R opened one socket, for a call of `by`, and made it this.socket
OpenedFor(R, by) ==
    /\ Len(R.socks) = Len(socks) + 1
    /\ R.socket = Len(R.socks)
    /\ R.socks[R.socket].by = by
    /\ R.socks[R.socket].rs = "CONNECTING"
\* the macrotask R ends is part of the behaviours checked
Kept(R) == Len(R.socks) <= MaxSockets
\* the close events, among those that may come next, with a code of codes
ClosesWith(codes) == {c \in CloseEvents : c[2] \in codes}
ResumableCodes ==
    (GatewayCodes \cup ShardCodes)
        \ ({"TestingFinished"} \cup GracefulCodes \cup ReIdentifyCodes
               \cup FatalCodes)
\* the sockets whose open event may come next, by the call that waits for it
Opening(by) ==
    {k \in Socks : socks[k].rs = "CONNECTING" /\ socks[k].by = by}

\* C1: the handler of a close event whose code is neither the testing code
\* nor a graceful, must-re-identify or fatal one (UnknownError, DecodeError,
\* AlreadyAuthenticated, an unlisted code) invokes the disconnected
\* callback, sets state to Resuming and calls resume() in that state.
C1_ResumableClose ==
    \A c \in ClosesWith(ResumableCodes) :
        LET R == onclose(c[1], c[2])
        IN  /\ "disconnected" \in R.cbs
            /\ CalledIn(R, "resume", "Resuming")

\* a connection of a shard with a session is lost with such a code, and the
\* handler leaves the shard Resuming on a new socket opened by resume()
C1_Witness ==
    \E c \in ClosesWith(ResumableCodes) :
        LET R == onclose(c[1], c[2])
        IN  /\ sessionId # 0
            /\ Kept(R)
            /\ R.state = "Resuming"
            /\ OpenedFor(R, "resume")

\* C2: the handler of a close event with code UnknownOpcode,
\* NotAuthenticated, InvalidSeq, RateLimited or SessionTimedOut sets state to
\* Identifying and calls identify() and never resume(); identify() opens a
\* new socket, and when that socket opens it hands an Identify payload, and
\* no Resume payload, to send().
C2_ReIdentifyClose ==
    /\ \A c \in ClosesWith({"UnknownOpcode", "NotAuthenticated", "InvalidSeq",
                            "RateLimited", "SessionTimedOut"}) :
           LET R == onclose(c[1], c[2])
           IN  /\ CalledIn(R, "identify", "Identifying")
               /\ "resume" \notin CalledOps(R)
               /\ R.state = "Identifying"
               /\ OpenedFor(R, "identify")
    /\ \A k \in Opening("identify") : onopen(Cur, k).msgs = <<Identify>>

\* a shard with a session (one that could resume) is closed with
\* SessionTimedOut and re-identifies
C2_Witness ==
    \E c \in ClosesWith({"SessionTimedOut"}) :
        LET R == onclose(c[1], c[2])
        IN  /\ sessionId # 0
            /\ state = "Connected"
            /\ Kept(R)
            /\ R.state = "Identifying"
            /\ OpenedFor(R, "identify")

\* C3, as stated: from a fatal close until the user's next connect(),
\* identify() or resume() the shard opens no socket and writes no Identify
\* or Resume payload.
C3_NoAutoRecover ==
    [][halted = "fatal" /\ halted' = "fatal" =>
           /\ Len(socks') = Len(socks)
           /\ \A k \in Socks : Len(socks'[k].wire) <= Len(socks[k].wire)]_vars

\* C4, as stated: a fatal close settles every identify() or resume() call
\* that is in flight when it arrives; none of them stays pending.
C4_InFlightFails ==
    \A c \in ClosesWith(FatalCodes) :
        \A k \in Socks :
            socks[k].out = "pending" =>
                onclose(c[1], c[2]).socks[k].out # "pending"

\* C5: the handler of a close event with code Shutdown, ReIdentifying,
\* Resharded, ResumeClosingOldConnection or ZombiedConnection sets state to
\* Disconnected, that of one with TestingFinished sets it to Offline, and
\* neither calls identify(), resume() or connect() nor opens a socket.  The
\* handler is run here for every such code on every socket that can still
\* close, whoever closes it.
C5_GracefulClose ==
    \A k \in {j \in Socks : socks[j].rs \in {"OPEN", "CLOSING"}} :
        \A code \in {"Shutdown", "ReIdentifying", "Resharded",
                     "ResumeClosingOldConnection", "ZombiedConnection",
                     "TestingFinished"} :
            LET R == onclose(k, code)
            IN  /\ R.state = IF code = "TestingFinished" THEN "Offline"
                             ELSE "Disconnected"
                /\ CalledOps(R) = {"handleClose"}
                /\ Len(R.socks) = Len(socks)
                /\ ~R.err

\* the close event of a socket the shard closed itself, while the call that
\* closed it is in flight, is next
C5_Witness ==
    \E c \in ClosesWith({"ReIdentifying", "ResumeClosingOldConnection"}) :
        /\ state \in {"Identifying", "Resuming"}
        /\ onclose(c[1], c[2]).state = "Disconnected"

\* C6: previousSequenceNumber is the s of the last packet received whose s
\* is not null, 0 included, and a packet whose s is null leaves it as it is.
C6_SequenceFollows ==
    /\ previousSequenceNumber = lastS
    /\ \A k \in Socks : \A p \in Incoming(k) :
           onmessage(k, p).previousSequenceNumber =
               IF p.s # Null THEN p.s ELSE previousSequenceNumber

\* a Dispatch numbered 0 is next while previousSequenceNumber is not 0, and
\* so is a packet without a number
C6_Witness ==
    /\ previousSequenceNumber \notin {Null, 0}
    /\ \E k \in Socks : \E p \in Incoming(k) :
           p.s = 0 /\ onmessage(k, p).previousSequenceNumber = 0
    /\ \E k \in Socks : \E p \in Incoming(k) : p.s = Null

\* C7: when the socket of a resume() call opens, the call hands to send()
\* one Resume payload, whose session_id is sessionId and whose seq is the s
\* of the last packet received with a number, or 0 when there was none.
\* send() writes the message it was handed, so this is the payload on the
\* wire.
C7_ResumePayload ==
    \A k \in Opening("resume") :
        LET R == onopen(Cur, k)
            payload == Resume(sessionId, IF lastS = Null THEN 0 ELSE lastS)
        IN  /\ sessionId # 0
            /\ R.msgs = <<payload>>
            /\ \A i \in DOMAIN R.tx : R.tx[i].msg = payload

\* the socket of a resume() opens after a packet numbered MaxSeq, and the
\* payload goes out on it
C7_Witness ==
    \E k \in Opening("resume") :
        /\ lastS = MaxSeq
        /\ onopen(Cur, k).socks[k].wire = <<Resume(sessionId, MaxSeq)>>

\* C8: resume() without a sessionId calls identify(), which leaves state
\* Identifying and opens a socket for identify(); no socket is ever opened
\* for a resume() without a sessionId, and a socket that opens while there
\* is none has an Identify payload, or nothing, handed to send().
C8_ResumeWithoutSession ==
    /\ sessionId = 0 =>
           LET R == resume(Cur)
           IN  /\ "identify" \in CalledOps(R)
               /\ R.state = "Identifying"
               /\ OpenedFor(R, "identify")
    /\ sessionId = 0 =>
           \A k \in Socks :
               /\ socks[k].by # "resume"
               /\ socks[k].rs = "CONNECTING" =>
                      /\ "Resume" \notin SentOps(onopen(Cur, k))
                      /\ socks[k].by = "identify" =>
                             onopen(Cur, k).msgs = <<Identify>>

\* a shard that never got READY loses its connection with a resumable code:
\* the resume() of the close handler identifies
C8_Witness ==
    \E c \in ClosesWith(ResumableCodes) :
        LET R == onclose(c[1], c[2])
        IN  /\ sessionId = 0
            /\ Kept(R)
            /\ CalledIn(R, "resume", "Resuming")
            /\ R.state = "Identifying"
            /\ OpenedFor(R, "identify")

\* C9, as stated: a sender that was released is no longer in
\* offlineSendQueue.
C9_ReleasedLeavesQueue ==
    \A i \in DOMAIN offlineSendQueue : ~offlineSendQueue[i].released

\* C10: the senders a READY or RESUMED releases are released with every
\* high-priority one before every low-priority one, the low-priority ones in
\* the order they parked and the high-priority ones in the reverse of it.
\* offlineSendQueue never shrinks, so the n of a sender tells when it parked.
C10_DrainOrder ==
    \A k \in Socks : \A p \in Readys(k) \cup Resumeds(k) :
        LET rel == onmessage(k, p).rel
        IN  \A i, j \in DOMAIN rel :
                i < j =>
                    /\ rel[j].hp => rel[i].hp
                    /\ ~rel[i].hp => rel[i].n < rel[j].n
                    /\ rel[j].hp => rel[i].n > rel[j].n

\* a READY or RESUMED is next that releases two high-priority senders, the
\* later parked first
C10_Witness ==
    \E k \in Socks : \E p \in Readys(k) \cup Resumeds(k) :
        LET rel == onmessage(k, p).rel
        IN  /\ Len(rel) >= 2
            /\ rel[1].hp /\ rel[2].hp /\ rel[1].n > rel[2].n

\* every write of the macrotask R ends went to a socket that was open
WritesOpen(R) == \A i \in DOMAIN R.tx : R.tx[i].rs = "OPEN"
\* the macrotasks that may grant a token or release a parked sender next
Drains ==
    UNION {{onmessage(k, p) : p \in Readys(k) \cup Resumeds(k)} :
               k \in Socks}
Grants == Drains \cup {refill(Cur)}

\* C11, as stated: a sender whose token is granted while the socket is not
\* open is parked by the second checkOffline and writes nothing then, and
\* what a parked sender writes when READY or RESUMED releases it goes to a
\* socket that is open.
C11_ParkedUntilOpen ==
    \A R \in Grants : WritesOpen(R)

\* the macrotasks that may come next: a call of the user, an event of a
\* socket, a timer, the bucket's refill
Ticks ==
    {jitterCallback([Cur EXCEPT !.socks[k].jitter = FALSE], k) :
         k \in {j \in Socks : socks[j].jitter}}
        \cup (IF \E k \in Socks : socks[k].steady
              THEN {intervalCallback(Cur)} ELSE {})
Packets == UNION {{onmessage(k, p) : p \in Incoming(k)} : k \in Socks}
NonPackets ==
    {send(Cur, UserMsg(nSends + 1), hp) : hp \in BOOLEAN}
        \cup {connect(Started, "connect"), identify(Started),
              resume(Started), shutdown(Cur)}
        \cup {close(Cur, code) : code \in ManagerCodes}
        \cup {onopen(Cur, k) : k \in {j \in Socks : socks[j].rs = "CONNECTING"}}
        \cup {onclose(c[1], c[2]) : c \in CloseEvents}
        \cup {afterDelay(Cur, k) :
                  k \in {j \in Socks : socks[j].inv \in {"resumable", "fresh"}}}
        \cup Ticks \cup {refill(Cur)}
Macrotasks == Packets \cup NonPackets
\* the writes of R that are not heartbeats, the heartbeats of R
NonBeats(R) == Len(SelectSeq(R.tx, LAMBDA w : w.msg.op # "Heartbeat"))
Beats(R) == Len(SelectSeq(R.tx, LAMBDA w : w.msg.op = "Heartbeat"))
\* the senders that wait in offlineSendQueue with the token they acquired
Holding(S) ==
    Len(SelectSeq(S.offlineSendQueue,
                  LAMBDA e : e.stage = 2 /\ ~e.released))

\* C12: in every macrotask, each write of a payload other than a Heartbeat
\* is paid with one token: one taken from the bucket in that macrotask, or
\* the one a sender parked after its acquire was holding.  So the writes
\* that are not heartbeats, plus the senders left holding a token, are as
\* many as the tokens taken plus the senders that held one.  The callbacks of
\* the two heartbeat timers and the handler of a Heartbeat packet write
\* heartbeats only, take no token and leave the bucket as it was.
C12_TokenPerWrite ==
    /\ \A R \in Macrotasks :
           NonBeats(R) + Holding(R) = R.took + Holding(Cur)
    /\ \A R \in Ticks \cup UNION {{onmessage(k, p) : p \in Heartbeats(k)} :
                                    k \in Socks} :
           NonBeats(R) = 0 /\ R.took = 0 /\ R.bucket = bucket

\* the interval timer ticks on an open socket after an answered heartbeat:
\* the tick writes a Heartbeat and takes no token, and a command of the
\* user sent now is written with the one token it takes
C12_Witness ==
    /\ isOpen(Cur) /\ heart.acknowledged /\ socks[socket].steady
    /\ LET R == intervalCallback(Cur)
       IN  Beats(R) = 1 /\ R.took = 0
    /\ LET R == send(Cur, UserMsg(nSends + 1), FALSE)
       IN  NonBeats(R) = 1 /\ R.took = 1
    /\ nSends > 0 /\ nSends < MaxSends

\* how often R called op
CallsOf(R, op) == Len(SelectSeq(R.calls, LAMBDA c : c.op = op))
\* the interval timer may tick next
Ticking == \E k \in Socks : socks[k].steady

\* what a tick that finds the connection zombied does: it writes nothing,
\* closes the socket with ZombiedConnection and calls identify(), each
\* once; identify() finds the socket closing, closes nothing more and opens
\* a new socket
ZombieTick(R) ==
    /\ R.tx = <<>> /\ R.msgs = <<>>
    /\ CallsOf(R, "close") = 1
    /\ R.socks[socket].rs = "CLOSING"
    /\ R.socks[socket].code = "ZombiedConnection"
    /\ \A k \in Socks \ {socket} : R.socks[k] = socks[k]
    /\ CallsOf(R, "identify") = 1
    /\ CalledOps(R) = {"close", "identify", "connect"}
    /\ R.state = "Identifying"
    /\ OpenedFor(R, "identify")

\* C13, as stated: heart.acknowledged is false at a tick of the interval
\* timer when no packet has arrived since the last heartbeat.  Such a tick
\* on an open socket sends no heartbeat, closes the socket with
\* ZombiedConnection and calls identify(), and it is the only tick that
\* does so for that heartbeat: no connection has been closed as zombied
\* since the heartbeat was written.
C13_OneZombiePerBeat ==
    (Ticking /\ isOpen(Cur) /\ ~heart.acknowledged) =>
        /\ ZombieTick(intervalCallback(Cur))
        /\ ~zombied

\* the part of C13 that holds: what each such tick does
C13_ZombieTick ==
    (Ticking /\ isOpen(Cur) /\ ~heart.acknowledged) =>
        ZombieTick(intervalCallback(Cur))

\* C14, as stated: every macrotask that writes a heartbeat, that of a timer
\* or the echo of a Heartbeat request, leaves heart.acknowledged false; and
\* while the interval timer runs with heart.acknowledged false (a heartbeat
\* has been written and no packet has arrived since), no packet other than
\* a HeartbeatACK makes it true.
C14_FalseUntilHeartbeatAck ==
    /\ \A R \in Macrotasks : Beats(R) > 0 => ~R.heart.acknowledged
    /\ (Ticking /\ ~heart.acknowledged) =>
           \A k \in Socks : \A p \in Incoming(k) :
               p.op # "HeartbeatACK" => ~onmessage(k, p).heart.acknowledged

\* C14, amended: heart.acknowledged is false from the moment a heartbeat of
\* the jitter or the interval timer is written until the next packet of
\* any kind is received.  The timers' heartbeats set it false; nothing but
\* a packet sets it true; every packet sets it true, also the Heartbeat
\* request whose echo is written in the same macrotask.
C14_FalseUntilPacket ==
    /\ \A R \in Ticks : Beats(R) > 0 => ~R.heart.acknowledged
    /\ \A R \in NonPackets : R.heart.acknowledged => heart.acknowledged
    /\ \A R \in Packets : R.heart.acknowledged

\* the interval timer of the open socket runs, no packet has arrived since
\* the last heartbeat, and the server asks for a heartbeat: the shard
\* writes the echo and heart.acknowledged is true after it
C14_Witness ==
    /\ isOpen(Cur) /\ socks[socket].steady /\ ~heart.acknowledged
    /\ \E p \in Heartbeats(socket) :
           LET R == onmessage(socket, p)
           IN  Beats(R) = 1 /\ R.heart.acknowledged

\* the close event of a shutdown() is still to come
ShutdownPending ==
    \E k \in Socks : socks[k].rs = "CLOSING" /\ socks[k].code = "Shutdown"

\* C15, as stated: since shutdown(), and until the user's next connect(),
\* identify() or resume(), state is Offline whenever the close event that
\* shutdown() caused, if it caused one, has been processed.
C15_OfflineAfterShutdown ==
    (halted = "shutdown" /\ ~ShutdownPending) => state = "Offline"

\* somebody waits: a resolver is registered, a sender is parked in
\* offlineSendQueue or waits for a token
Waiting ==
    \/ \E key \in DOMAIN resolves : resolves[key] # 0
    \/ Unreleased(offlineSendQueue) # <<>>
    \/ bucket.waiting # <<>>

\* C16, as stated: whenever somebody waits after shutdown(), there comes a
\* moment when no resolver, no parked sender and no bucket waiter is
\* waiting any more.
C16_ShutdownWakesAll ==
    (halted = "shutdown" /\ Waiting) ~> ~Waiting

\* C17, as stated: from shutdown() until the user's next connect(),
\* identify() or resume() the shard opens no socket and no Identify or
\* Resume payload reaches the server.
C17_NoReconnectAfterShutdown ==
    [][halted = "shutdown" /\ halted' = "shutdown" =>
           /\ Len(socks') = Len(socks)
           /\ \A k \in Socks : \A i \in DOMAIN socks'[k].wire :
                  i > Len(socks[k].wire) =>
                      socks'[k].wire[i].op \notin {"Identify", "Resume"}]_vars

\* the sockets that are connecting or open, and those that are closing
Live == {k \in Socks : socks[k].rs \in {"CONNECTING", "OPEN"}}
Closing == {k \in Socks : socks[k].rs = "CLOSING"}

\* C18, as stated: no socket is connecting or open while state is Offline
\* or Disconnected, and exactly one is in every other state.  A socket that
\* is closing, its close event still to come, is taken for the one socket
\* of an active state when no other is live.
C18_OneLiveSocket ==
    IF state \in {"Offline", "Disconnected"}
    THEN Live = {}
    ELSE \/ Cardinality(Live) = 1
         \/ Live = {} /\ Closing # {}

\* a heartbeat timer is pending: the jitter timer or the interval timer it
\* starts
HeartTimer == \E k \in Socks : socks[k].jitter \/ socks[k].steady
\* Hello has been handled on this.socket
PastHello == socket # 0 /\ socks[socket].srv # "new"

\* C19, as stated: a heartbeat timer runs exactly while this.socket has
\* delivered its Hello and has not closed.  The jitter timer counts as the
\* heartbeat timer until it has started the interval timer, and a socket
\* that is closing counts as closed or not, whichever suits the claim.
C19_TimerIffPastHello ==
    /\ (isOpen(Cur) /\ PastHello) => HeartTimer
    /\ HeartTimer =>
           PastHello /\ socks[socket].rs \in {"OPEN", "CLOSING"}

\* C20, as stated: the handler of READY sets sessionId to the session_id of
\* the packet; the handler of a close event with a fatal or a
\* must-re-identify code leaves sessionId undefined, and so does the end of
\* the delay of an InvalidSession that cannot be resumed.
C20_SessionCleared ==
    /\ \A k \in Socks : \A p \in Readys(k) :
           onmessage(k, p).sessionId = p.sid
    /\ \A c \in ClosesWith(FatalCodes \cup ReIdentifyCodes) :
           onclose(c[1], c[2]).sessionId = 0
    /\ \A k \in Socks :
           socks[k].inv = "fresh" => afterDelay(Cur, k).sessionId = 0

\* C21: the handler of a READY packet leaves state Connected, sessionId the
\* session_id and resumeGatewayUrl the resume_gateway_url of the packet, and
\* no READY resolver in the map; a resolver that was registered has been
\* invoked (identified is emitted and the promise it belongs to is no longer
\* pending), and without one identified is not emitted.  In every state,
\* Connected implies that sessionId is defined.
C21_ReadyHandled ==
    /\ \A k \in Socks : \A p \in Readys(k) :
           LET R == onmessage(k, p)
               r == resolves["READY"]
           IN  /\ R.state = "Connected"
               /\ R.sessionId = p.sid
               /\ R.resumeGatewayUrl = p.url
               /\ R.resolves["READY"] = 0
               /\ "identified" \in R.cbs <=> r # 0
               /\ r # 0 => R.socks[r].out = "resolved"
    /\ state = "Connected" => sessionId # 0

\* a second session: READY is next on a socket while the shard holds the
\* session of an earlier connection, and the identify() that waits for it
\* has registered its resolver
C21_Witness ==
    \E k \in Socks : \E p \in Readys(k) :
        /\ sessionId # 0 /\ sessionId # p.sid
        /\ resolves["READY"] = k /\ socks[k].out = "pending"
        /\ onmessage(k, p).sessionId = p.sid

\* the sockets whose InvalidSession waits for the end of its delay
Delayed == {k \in Socks : socks[k].inv \in {"resumable", "fresh"}}
\* the key of the waiter the attempt of socket k registers besides
\* INVALID_SESSION
WaiterOf(k) == IF socks[k].by = "identify" THEN "READY" ELSE "RESUMED"

\* C22: at the end of the delay of an InvalidSession the INVALID_SESSION
\* waiter that is registered is invoked (the promise of its attempt is
\* resolved) and removed, the READY or RESUMED waiter of that attempt is
\* removed without being invoked (identified is not emitted), and the
\* first call is identify() when d was false and resume() when d was true.
C22_InvalidSession ==
    \A k \in Delayed :
        LET R == afterDelay(Cur, k)
            j == resolves["INVALID_SESSION"]
        IN  /\ R.resolves["INVALID_SESSION"] = 0
            /\ j # 0 => /\ R.socks[j].out = "resolved"
                        /\ R.resolves[WaiterOf(j)] = 0
            /\ "identified" \notin R.cbs /\ "resumed" \notin R.cbs
            /\ R.calls[1].op = IF socks[k].inv = "fresh" THEN "identify"
                               ELSE "resume"

\* the delay of an InvalidSession with d true, received by an identify()
\* that waits for READY, is about to end
C22_Witness ==
    \E k \in Delayed :
        /\ socks[k].inv = "resumable" /\ socks[k].by = "identify"
        /\ socks[k].out = "pending"
        /\ resolves["INVALID_SESSION"] = k /\ resolves["READY"] = k
        /\ LET R == afterDelay(Cur, k)
           IN  Kept(R) /\ R.resolves["READY"] = 0

\* C23, as stated: every callback in the resolves map belongs to an
\* identify() or resume() call whose promise is still pending; the
\* callbacks of a call that has completed are no longer in the map.
C23_NoStaleResolver ==
    \A key \in DOMAIN resolves :
        resolves[key] # 0 => socks[resolves[key]].out = "pending"

\* maxRequestsPerRateLimitTick - ceil(rateLimitResetInterval / interval) * 2,
\* not below 0
SafeRequests(interval) ==
    LET n == maxRequestsPerRateLimitTick
                 - CeilDiv(rateLimitResetInterval, interval) * 2
    IN  IF n < 0 THEN 0 ELSE n

\* C24: the handler of Hello, when state is not Resuming, leaves a bucket
\* whose max and refillAmount are the safe request count of the new
\* heartbeat interval and whose waiters are those of the old bucket, in
\* the same order; it writes nothing and parks nobody.  When state is
\* Resuming the bucket is left as it is.
C24_HelloRebuildsBucket ==
    \A k \in Socks : \A p \in Hellos(k) :
        LET R == onmessage(k, p)
        IN  IF state # "Resuming"
            THEN /\ R.bucket.max = SafeRequests(p.d)
                 /\ R.bucket.refillAmount = SafeRequests(p.d)
                 /\ R.bucket.waiting = bucket.waiting
                 /\ R.tx = <<>>
                 /\ R.offlineSendQueue = offlineSendQueue
            ELSE R.bucket = bucket

\* a sender waits for a token when the Hello of a new connection, with
\* another heartbeat interval, is next
C24_Witness ==
    /\ bucket.waiting # <<>> /\ state # "Resuming"
    /\ \E k \in Socks : \E p \in Hellos(k) :
           /\ SafeRequests(p.d) # bucket.max
           /\ onmessage(k, p).bucket.waiting = bucket.waiting

\* the handling of an earlier packet is not complete: an InvalidSession
\* waits for the end of its delay, or a Reconnect or InvalidSession for the
\* resume() or identify() it awaits
Unfinished ==
    Delayed # {} \/ \E k \in Socks : socks[k].tail # "none"

\* C25, as stated: while the handling of an earlier packet is not complete,
\* the arrival of a packet does not start handleDiscordPacket for it.
C25_PacketsInOrder ==
    Unfinished => \A R \in Packets : "handleDiscordPacket" \notin CalledOps(R)

\* ------------------------------------------------------------ the outage
\* the shard after construction, for Discord's gateway or for a proxy as
\* gatewayConfig.url
InitGateway ==
    /\ state = "Offline"
    /\ socks = <<>>
    /\ socket = 0
    /\ sessionId = 0
    /\ resumeGatewayUrl = 0
    /\ previousSequenceNumber = Null
    /\ heart = [acknowledged |-> FALSE, interval |-> 45000,
                timeoutId |-> 0, intervalId |-> 0]
    /\ bucket = [max |-> 120, refillAmount |-> 120, tokens |-> 120,
                 waiting |-> <<>>]
    /\ offlineSendQueue = <<>>
    /\ resolves = [READY |-> 0, RESUMED |-> 0, INVALID_SESSION |-> 0]
    /\ intents = 513
    /\ cache = [enabled |-> FALSE, pending |-> {}]
    /\ now = 0
    /\ asks = <<>>
    /\ random = 0
    /\ jitter = 0
    /\ primary \in BOOLEAN
    /\ nSends = 0
    /\ halted = "no"
    /\ zombied = FALSE
    /\ lastS = Null

\* the server, or the network, closes an open socket with a resumable code
ServerCloseResumable ==
    \E c \in CloseEvents :
        /\ socks[c[1]].rs = "OPEN"
        /\ c[2] \in {"UnknownError", "DecodeError", "AlreadyAuthenticated"}
        /\ Commit(onclose(c[1], c[2]))
        /\ UNCHANGED <<intents, cache, now, asks, random, primary,
                       nSends, lastS>>

\* SpecOutage: the user's commands, on a shard that identifies and loses
\* its connection with a resumable code, for either kind of
\* gatewayConfig.url, where what the event loop and the server owe comes: a
\* connecting socket opens, the server answers an open socket with Hello
\* and a Resume with RESUMED, the bucket is refilled
NextOutage ==
    \/ UserIdentify \/ UserSend
    \/ SocketOpen \/ ServerCloseResumable
    \/ RecvHello \/ RecvReady0 \/ RecvResumed0
    \/ BucketRefill

SpecOutage ==
    /\ InitGateway /\ [][NextOutage]_vars
    /\ WF_vars(SocketOpen) /\ WF_vars(RecvHello)
    /\ WF_vars(RecvResumed0) /\ WF_vars(BucketRefill)

\* the close events with a resumable code of the connection of a Connected
\* shard that has a session
Outages ==
    {c \in ClosesWith(ResumableCodes) :
        state = "Connected" /\ sessionId # 0 /\ c[1] = socket}
\* the shard resumes on this.socket, which has not closed
Reconnecting ==
    /\ state = "Resuming" /\ socket # 0
    /\ socks[socket].by = "resume"
    /\ socks[socket].rs \in {"CONNECTING", "OPEN"}
\* the shard is Connected again on the socket resume() opened, the server
\* has the Resume, and no parked sender is left unreleased
Recovered ==
    /\ state = "Connected" /\ socket # 0
    /\ socks[socket].by = "resume"
    /\ Got(socket, "Resume")
    /\ Unreleased(offlineSendQueue) = <<>>
\* the connection of this.socket is lost
Lost == socket # 0 /\ socks[socket].rs = "CLOSED"
\* R opened one socket to url for resume() and left the shard Resuming
ResumesAt(R, url) ==
    /\ OpenedFor(R, "resume")
    /\ R.socks[R.socket].url = url
    /\ R.state = "Resuming"
\* R handed the Resume payload of the session to send(), and it was written
\* to socket k or waits for a token of the bucket
ResumeSent(R, k) ==
    /\ R.msgs = <<Resume(sessionId, IF previousSequenceNumber = Null THEN 0
                                    ELSE previousSequenceNumber)>>
    /\ \/ \E i \in DOMAIN R.tx :
              R.tx[i].msg.op = "Resume" /\ R.tx[i].sock = k
                  /\ R.tx[i].rs = "OPEN"
       \/ \E i \in DOMAIN R.bucket.waiting :
              R.bucket.waiting[i].msg.op = "Resume"

\* C26, as stated: the handler of a resumable close of a Connected shard
\* with a session opens a new socket to resumeGatewayUrl.
C26_ToResumeGatewayUrl ==
    \A c \in Outages : ResumesAt(onclose(c[1], c[2]), resumeGatewayUrl)

\* C26, for either kind of gatewayConfig.url: the handler of a resumable
\* close of a Connected shard with a session opens a new socket, to
\* resumeGatewayUrl when gatewayConfig.url is Discord's gateway and to
\* gatewayConfig.url when it is a proxy, and leaves the shard Resuming; when
\* that socket opens the Resume payload of the session is handed to send()
\* and is written to it or waits for a token; and while the shard is
\* Resuming on a socket of resume() that has not closed, there comes a
\* moment when it is Connected on that socket with every parked sender
\* released, or the socket has closed.
C26_ResumeAfterClose ==
    /\ [](\A c \in Outages :
            ResumesAt(onclose(c[1], c[2]),
                      IF primary THEN resumeGatewayUrl ELSE 0))
    /\ [](\A k \in Opening("resume") :
            (state = "Resuming" /\ k = socket /\ sessionId # 0)
                => ResumeSent(onopen(Cur, k), k))
    /\ Reconnecting ~> (Recovered \/ Lost)

\* the shard is Connected again on a socket resume() opened after an
\* outage, and a sender that was parked has been released
C26_Witness ==
    /\ Recovered
    /\ \E i \in DOMAIN offlineSendQueue : offlineSendQueue[i].msg.op # "Identify"
    /\ \E k \in Socks : k # socket /\ socks[k].rs = "CLOSED"

\* ------------------------------------------------------- requestMembers
\* the readings of Date.now() of a behaviour are 0..MaxClock
MaxClock == 1

Guilds == {1}
\* options of requestMembers: limit is Null when absent, userIds the length
\* of options.userIds, 0 when absent or empty
MemberOptions == [limit : {Null, 0, 1, 2}, userIds : 0..1]
\* the values of this.connection.intents: none, Guilds, GuildMembers, both
IntentSets == {0, 1, 2, 3}

\* this.connection.intents & GatewayIntents.GuildMembers, which is 1 << 1
GuildMembersBit(i) == (i \div 2) % 2

\* the nonce: `${guildId}-${Date.now()}`
Nonce(guildId) == <<guildId, now>>

\* the RequestGuildMembers payload: limit is options.limit ?? 0
MembersMsg(guildId, limit) ==
    [op |-> "RequestGuildMembers", sid |-> 0, seq |-> Null,
     nonce |-> Nonce(guildId), limit |-> IF limit = Null THEN 0 ELSE limit]

\* requestMembers from the nonce on.  With the cache enabled
\* pending.set(nonce, ...) puts the record of this call in the place of a
\* record with the same nonce; the call is number Len(asks) + 1 of asks
membersRequest(S, guildId, limit) ==
    IF ~S.cache.enabled THEN send(S, MembersMsg(guildId, limit), FALSE)
    ELSE send([S EXCEPT
                 !.cache.pending =
                     {r \in @ : r.nonce # Nonce(guildId)}
                         \cup {[nonce |-> Nonce(guildId),
                                call |-> Len(S.asks) + 1]},
                 !.asks = Append(@, [nonce |-> Nonce(guildId),
                                     done |-> FALSE])],
              MembersMsg(guildId, limit), FALSE)

\* a requestMembers that tests the intent after userIds has set the limit
requestMembersLimitFirst(S, guildId, options) ==
    LET S0 == Called(S, "requestMembers")
        limit == IF options.userIds > 0 THEN options.userIds
                 ELSE options.limit
    IN  IF /\ intents # 0
           /\ (limit \in {Null, 0} \/ limit > 1)
           /\ GuildMembersBit(intents) = 0
        THEN [S0 EXCEPT !.err = TRUE]
        ELSE membersRequest(S0, guildId, limit)

\* requestMembers(guildId, options): the test of the intent throws
\* MISSING_INTENT_GUILD_MEMBERS; then options.userIds, when it has a length,
\* sets the limit
requestMembers(S, guildId, options) ==
    LET S0 == Called(S, "requestMembers")
    IN  IF /\ intents # 0
           /\ (options.limit \in {Null, 0} \/ options.limit > 1)
           /\ GuildMembersBit(intents) = 0
        THEN [S0 EXCEPT !.err = TRUE]
        ELSE membersRequest(S0, guildId,
                            IF options.userIds > 0 THEN options.userIds
                            ELSE options.limit)

\* the shard after construction, for any intents and either setting of
\* cache.requestMembers.enabled
InitMembers ==
    /\ state = "Offline"
    /\ socks = <<>>
    /\ socket = 0
    /\ sessionId = 0
    /\ resumeGatewayUrl = 0
    /\ previousSequenceNumber = Null
    /\ heart = [acknowledged |-> FALSE, interval |-> 45000,
                timeoutId |-> 0, intervalId |-> 0]
    /\ bucket = [max |-> 120, refillAmount |-> 120, tokens |-> 120,
                 waiting |-> <<>>]
    /\ offlineSendQueue = <<>>
    /\ resolves = [READY |-> 0, RESUMED |-> 0, INVALID_SESSION |-> 0]
    /\ intents \in IntentSets
    /\ cache \in [enabled : BOOLEAN, pending : {{}}]
    /\ now = 0
    /\ asks = <<>>
    /\ random = 0
    /\ jitter = 0
    /\ primary = TRUE
    /\ nSends = 0
    /\ halted = "no"
    /\ zombied = FALSE
    /\ lastS = Null

\* the calls of requestMembers the user may make next
MemberCalls == Guilds \X MemberOptions

UserRequestMembers ==
    \E c \in MemberCalls :
        LET R == requestMembers(Cur, c[1], c[2])
        IN  /\ nSends < MaxSends
            /\ Commit(R)
            /\ cache' = R.cache
            /\ asks' = R.asks
            /\ nSends' = IF R.err THEN nSends ELSE nSends + 1
            /\ UNCHANGED <<intents, now, random, primary, lastS>>

\* a millisecond passes
ClockTick ==
    /\ now < MaxClock
    /\ now' = now + 1
    /\ UNCHANGED <<state, socks, socket, sessionId, resumeGatewayUrl,
                   previousSequenceNumber, heart, bucket, offlineSendQueue,
                   resolves, intents, cache, asks, random, jitter, primary,
                   nSends, halted, zombied, lastS>>

\* the last GuildMembersChunk of a request has come: the handler of the
\* event resolves the pending record of its nonce and removes it
MembersChunk ==
    \E r \in cache.pending :
        /\ cache' = [cache EXCEPT !.pending = @ \ {r}]
        /\ asks' = [asks EXCEPT ![r.call].done = TRUE]
        /\ UNCHANGED <<state, socks, socket, sessionId, resumeGatewayUrl,
                       previousSequenceNumber, heart, bucket,
                       offlineSendQueue, resolves, intents, now, random,
                       jitter, primary, nSends, halted, zombied, lastS>>

\* SpecMembers: the user requests members of a shard that connects, before
\* the socket is open and after
NextMembers ==
    \/ UserConnect \/ UserRequestMembers
    \/ SocketOpen
    \/ ClockTick \/ MembersChunk

SpecMembers == InitMembers /\ [][NextMembers]_vars

\* intents has the GuildMembers bit: it is 2 or 3 above a multiple of 4
HasGuildMembers == intents % 4 \in {2, 3}
\* R left the socket, the queues and the cache as they were
Untouched(R) ==
    /\ R.msgs = <<>> /\ R.tx = <<>> /\ R.took = 0
    /\ R.socks = socks
    /\ R.offlineSendQueue = offlineSendQueue
    /\ R.bucket = bucket
    /\ R.cache = cache /\ R.asks = asks

\* C27: a call of requestMembers throws the missing-intent Error exactly
\* when intents is not 0, the GuildMembers bit is not set and options.limit,
\* as the caller gave it, is absent, 0 or greater than 1, whatever
\* options.userIds is; a call that throws hands nothing to send(), writes
\* nothing to a socket and adds no pending record.
C27_MissingIntent ==
    \A c \in MemberCalls :
        LET R == requestMembers(Cur, c[1], c[2])
            limit == c[2].limit
        IN  /\ R.err <=> /\ intents # 0
                         /\ ~HasGuildMembers
                         /\ (limit = Null \/ limit = 0 \/ limit > 1)
            /\ R.err => Untouched(R)

\* a shard with an open socket and the cache enabled refuses a call that
\* names one user and gives no limit
C27_Witness ==
    /\ isOpen(Cur) /\ cache.enabled
    /\ \E c \in MemberCalls :
        /\ c[2].limit = Null /\ c[2].userIds = 1
        /\ requestMembers(Cur, c[1], c[2]).err

\* the calls of asks whose promise is pending
PendingAsks == {i \in DOMAIN asks : ~asks[i].done}

\* C28, as stated: no two pending calls have the same nonce, and every
\* pending call has the pending record of its nonce.
C28_NonceUnique ==
    /\ \A i, j \in PendingAsks : i # j => asks[i].nonce # asks[j].nonce
    /\ \A i \in PendingAsks :
        [nonce |-> asks[i].nonce, call |-> i] \in cache.pending

\* the heartbeats R wrote to socket k while it was open
BeatsOn(R, k) ==
    Len(SelectSeq(R.tx, LAMBDA w : w.msg.op = "Heartbeat" /\ w.sock = k
                                       /\ w.rs = "OPEN"))
\* the callbacks of the heartbeat timers started on socket k that may run
\* next: that of its jitter timer, a tick of its interval timer
TimerCallbacks(k) ==
    (IF socks[k].jitter
     THEN {jitterCallback([Cur EXCEPT !.socks[k].jitter = FALSE], k)}
     ELSE {})
        \cup (IF socks[k].steady THEN {intervalCallback(Cur)} ELSE {})

\* C29, as stated, macrotask by macrotask: the heartbeats of a connection
\* are one for the callback of its jitter timer and one for each tick of
\* its interval timer.  So a callback of a timer of socket k that runs
\* while socket k is open writes one heartbeat to socket k and none to
\* another socket, and one that runs when socket k is no longer open writes
\* none at all.  The echo of a Heartbeat request of the server is left out
\* of the count, and so is the tick that closes the connection as zombied.
C29_BeatsPerConnection ==
    \A k \in Socks : \A R \in TimerCallbacks(k) :
        IF socks[k].rs = "OPEN"
        THEN \/ Beats(R) = 1 /\ BeatsOn(R, k) = 1
             \/ ZombieTick(R)
        ELSE Beats(R) = 0

\* ------------------------------------------------------------ the jitter
Samples == 0..(SampleSteps - 1)

\* the shard after construction, for any sample of Math.random()
InitJitter ==
    /\ state = "Offline"
    /\ socks = <<>>
    /\ socket = 0
    /\ sessionId = 0
    /\ resumeGatewayUrl = 0
    /\ previousSequenceNumber = Null
    /\ heart = [acknowledged |-> FALSE, interval |-> 45000,
                timeoutId |-> 0, intervalId |-> 0]
    /\ bucket = [max |-> 120, refillAmount |-> 120, tokens |-> 120,
                 waiting |-> <<>>]
    /\ offlineSendQueue = <<>>
    /\ resolves = [READY |-> 0, RESUMED |-> 0, INVALID_SESSION |-> 0]
    /\ intents = 513
    /\ cache = [enabled |-> FALSE, pending |-> {}]
    /\ now = 0
    /\ asks = <<>>
    /\ random \in Samples
    /\ jitter = 0
    /\ primary = TRUE
    /\ nSends = 0
    /\ halted = "no"
    /\ zombied = FALSE
    /\ lastS = Null

\* the next call of Math.random() will return another sample
Roll ==
    /\ random' \in Samples \ {random}
    /\ UNCHANGED <<state, socks, socket, sessionId, resumeGatewayUrl,
                   previousSequenceNumber, heart, bucket, offlineSendQueue,
                   resolves, intents, cache, now, asks, jitter, primary,
                   nSends, halted, zombied, lastS>>

\* SpecJitter: a shard identifies and loses its connection, and each Hello
\* starts the heartbeat with a sample of Math.random()
NextJitter ==
    \/ UserIdentify
    \/ SocketOpen \/ ServerCloseResumable
    \/ RecvHello
    \/ Roll

SpecJitter == InitJitter /\ [][NextJitter]_vars

\* C30, as stated: the handler of every Hello, for every heartbeat_interval
\* and every sample of Math.random(), schedules the first heartbeat with a
\* delay of at least ceil(interval * 0.5) and at most interval milliseconds.
C30_JitterRange ==
    \A k \in Socks : \A p \in Hellos(k) :
        LET R == onmessage(k, p)
        IN  /\ R.jitter >= CeilDiv(p.d, 2)
            /\ R.jitter <= p.d

\* ------------------------------------------------- attempts and handshakes
\* the identify() or resume() that created this.socket has not completed,
\* and its socket has not closed
InFlight ==
    /\ socket # 0
    /\ socks[socket].by \in {"identify", "resume"}
    /\ socks[socket].out = "pending"
    /\ socks[socket].rs \in {"CONNECTING", "OPEN"}
\* the codes with which identify(), resume() and the zombie check close the
\* connection they replace
ReplacingCodes ==
    {"ReIdentifying", "ResumeClosingOldConnection", "ZombiedConnection"}

\* C31, as stated: while the identify() or resume() that created
\* this.socket is in flight and state is Identifying or Resuming, the
\* handler of the close event of an older socket, closed with ReIdentifying,
\* ResumeClosingOldConnection or ZombiedConnection, leaves state as it is.
C31_StateHeldInFlight ==
    \A c \in ClosesWith(ReplacingCodes) :
        (InFlight /\ c[1] # socket /\ state \in {"Identifying", "Resuming"})
            => onclose(c[1], c[2]).state = state

\* the handshake payloads among the frames or the writes of a sequence
Handshakes(ws) ==
    Len(SelectSeq(ws, LAMBDA w : w.op \in {"Identify", "Resume"}))
HandshakeWrites(R) ==
    Len(SelectSeq(R.tx, LAMBDA w : w.msg.op \in {"Identify", "Resume"}
                                       /\ w.rs = "OPEN"))

\* the end of the delay of an InvalidSession, in a behaviour that may have
\* one socket more than MaxSockets
DelayFireAnew ==
    \E k \in Socks :
        /\ socks[k].inv \in {"resumable", "fresh"}
        /\ CommitWithin(afterDelay(Cur, k), MaxSockets + 1)
        /\ UNCHANGED <<intents, cache, now, asks, random, primary,
                       nSends, lastS>>

\* SpecHandshake: a shard identifies; the server may answer with
\* InvalidSession and may close the connection with a resumable code while
\* the shard waits out the delay
NextHandshake ==
    \/ UserIdentify
    \/ SocketOpen \/ ServerCloseResumable
    \/ RecvHello \/ RecvReady0 \/ RecvInvalidSession
    \/ DelayFireAnew

SpecHandshake == Init /\ [][NextHandshake]_vars

\* C32, as stated: the server receives at most one Identify or Resume on a
\* connection, and the handler of a READY or RESUMED, which drains the
\* offline queue, writes no Identify and no Resume.
C32_OneHandshake ==
    /\ \A k \in Socks : Handshakes(socks[k].wire) <= 1
    /\ \A R \in Drains : HandshakeWrites(R) = 0

\* the writes of R to an open socket whose payload is a command of the user
CommandWrites(R) ==
    Len(SelectSeq(R.tx, LAMBDA w : w.rs = "OPEN"
                     /\ w.msg.op \in {"PresenceUpdate", "VoiceStateUpdate",
                                      "RequestGuildMembers"}))

\* C33, as stated: a macrotask writes a command of the user to a socket only
\* when it leaves state Connected; so a send() of the user in another
\* state writes nothing, also when the socket is open.
C33_CommandsWhenConnected ==
    \A R \in Macrotasks : CommandWrites(R) > 0 => R.state = "Connected"

\* the send() calls the user may make next
UserSends == {send(Cur, UserMsg(nSends + 1), hp) : hp \in BOOLEAN}
\* R parked one sender more
ParkedOne(R) == Len(R.offlineSendQueue) = Len(offlineSendQueue) + 1

\* C33, for what checkOffline tests: a send() of the user is held back
\* exactly when the socket is not open, whatever the state.  With an open
\* socket the command is not parked: it is written to the socket at once
\* when the bucket grants a token, and waits in the bucket otherwise.
\* Without one it is parked in offlineSendQueue and nothing is written.
C33_CommandsWhenOpen ==
    \A R \in UserSends :
        IF isOpen(Cur)
        THEN /\ ~ParkedOne(R)
             /\ \/ CommandWrites(R) = 1 /\ R.took = 1
                \/ /\ CommandWrites(R) = 0
                   /\ Len(R.bucket.waiting) = Len(bucket.waiting) + 1
        ELSE ParkedOne(R) /\ R.tx = <<>> /\ R.took = 0

\* the socket is open, the shard is still Identifying, and a command of the
\* user is written at once
C33_Witness ==
    /\ isOpen(Cur) /\ state = "Identifying"
    /\ \E R \in UserSends : CommandWrites(R) = 1

\* C34, as stated: the handler of the close event of a socket that is no
\* longer this.socket leaves the heartbeat timers started by the Hello of
\* this.socket pending, the jitter timer and the interval timer alike.
C34_TimersOutliveOldClose ==
    \A c \in CloseEvents :
        (socket # 0 /\ c[1] # socket /\ socks[socket].rs = "OPEN") =>
            LET R == onclose(c[1], c[2])
            IN  /\ socks[socket].jitter => R.socks[socket].jitter
                /\ socks[socket].steady => R.socks[socket].steady

\* C35, as stated: the handler of the Hello of a socket that resume()
\* opened leaves the bucket as it is.
C35_ResumeKeepsBucket ==
    \A k \in Socks : \A p \in Hellos(k) :
        socks[k].by = "resume" => onmessage(k, p).bucket = bucket

\* the attempts in flight: the calls of identify() and resume() whose
\* promise is pending and whose socket has not closed
LiveAttempts ==
    {k \in Socks : /\ socks[k].by \in {"identify", "resume"}
                   /\ socks[k].out = "pending"
                   /\ socks[k].rs \in {"CONNECTING", "OPEN"}}
\* the macrotasks the shard starts by itself: the handlers of packets and
\* close events, the callbacks of the heartbeat timers, the ends of delays
OwnTasks ==
    Packets \cup Ticks
        \cup {onclose(c[1], c[2]) : c \in CloseEvents}
        \cup {afterDelay(Cur, k) : k \in Delayed}

\* C36, as stated: a macrotask of the shard's own that calls identify()
\* leaves no earlier attempt pending: every attempt that was in flight has
\* been completed by the time.  An attempt whose socket the macrotask finds
\* closed by the server is not counted.
C36_OneAttempt ==
    \A R \in OwnTasks :
        "identify" \in CalledOps(R) =>
            \A k \in LiveAttempts :
                R.socks[k].rs # "CLOSED" => R.socks[k].out # "pending"

\* ------------------------------------------------------ the timers pending
JitterTimers == {k \in Socks : socks[k].jitter}
IntervalTimers == {k \in Socks : socks[k].steady}
\* the timers pending in R that no handle of R.heart names any more
Orphans(R) ==
    {k \in DOMAIN R.socks : R.socks[k].jitter /\ R.heart.timeoutId # k}
        \cup {k \in DOMAIN R.socks :
                  R.socks[k].steady /\ R.heart.intervalId # k}

\* C37, as stated: at most one jitter timer and at most one interval timer
\* are pending; the handles of this.heart name every pending timer, so that
\* none was overwritten while pending; and the handler of a close event,
\* which calls stopHeartbeating(), leaves no timer pending.
C37_TimersSingle ==
    /\ Cardinality(JitterTimers) <= 1
    /\ Cardinality(IntervalTimers) <= 1
    /\ Orphans(Cur) = {}
    /\ \A c \in CloseEvents :
           LET R == onclose(c[1], c[2])
           IN  \A k \in Socks : ~R.socks[k].jitter /\ ~R.socks[k].steady

\* ------------------------------------------------- the budget of a session
\* the payloads other than heartbeats that R wrote to a socket that was open
Transmitted(R) ==
    Len(SelectSeq(R.tx, LAMBDA w : w.msg.op # "Heartbeat" /\ w.rs = "OPEN"))

\* C38, as stated, for the macrotask that releases the parked senders: what
\* the handler of READY or RESUMED transmits, together with what the bucket
\* admits after it before the next refill, is no more than the max of the
\* bucket.  A sender released with a token of the bucket before counts
\* against the budget of the bucket there is.
C38_SessionBudget ==
    \A R \in Drains : Transmitted(R) + R.bucket.tokens <= R.bucket.max

============================================================================
